---- MODULE Spec2Model ----
(***************************************************************************)
(* Theme coordinator of the portfolio application: the useTheme hook       *)
(* (src/src/hooks/useTheme.ts), its consumers and the browser environment  *)
(* it talks to (localStorage, matchMedia, the document).                   *)
(*                                                                         *)
(* The browser state and the React state of every hook instance are kept   *)
(* in one "world" record, so that a handler is an operator from worlds to  *)
(* worlds and one event can run the handlers of several instances in       *)
(* sequence, as the event loop does.                                       *)
(***************************************************************************)
EXTENDS Integers, Sequences, FiniteSets, TLC

\* Pending timers of one kind that the model follows at the same time.
MaxTimers == 2

\* The validations of useDebouncedValidation that may be in flight at once.
MaxInFlight == 2

\* ---------------------------------------------------------------- values

\* THEME_CONFIG (constants file)
defaultTheme == "light"
\* Another key than the configured one.
storageKeyOther == "color-theme"

storageKey == "theme"

Theme == {"light", "dark"}

\* JavaScript null: getItem of an absent key, a null argument, a null ref.
Null == "<null>"

\* What may be found under the key: nothing, a theme, another string, "".
StoredValues == {Null, "light", "dark", "blue", ""}

\* Arguments a caller may hand to setTheme (the type is erased at run time).
SetThemeArgs == {"light", "dark", "blue", "", Null}

\* The components that call useTheme, in the order they mount.
DispatchOrder == <<"ThemeButton", "Galaxy">>
Inst == {DispatchOrder[k] : k \in 1..Len(DispatchOrder)}

NoAnnouncer == <<"none", 0>>
AnnouncerIds(i) == {<<i, n>> : n \in 1..MaxTimers}

\* Colours of the theme-color meta element; NoMeta: the page has none.
NoMeta == "no-meta"
MetaDark == "#18181b"
MetaLight == "#ffffff"
MetaInitial == "#initial"

VARIABLES
    theme,              \* [Inst -> Theme]: useState theme, latest value
    mounted,            \* [Inst -> BOOLEAN]: useState mounted
    systemPrefersDark,  \* [Inst -> BOOLEAN]: useState systemPrefersDark
    status,             \* [Inst -> "created" | "live" | "crashed" | "gone"]
    closure,            \* [Inst -> Theme]: theme captured by the rendered toggleTheme
    announcerRef,       \* [Inst -> announcer id or NoAnnouncer]
    body,               \* announcer elements attached to document.body
    timers,             \* announcer elements whose removal timeout is pending
    docDark,            \* document.documentElement has the class "dark"
    metaContent,        \* content of meta[name=theme-color], or NoMeta
    transitionProp,     \* root style has --theme-transition
    storage,            \* localStorage value under the key "theme"
    storageAccess,      \* "ok" | "quota" (setItem throws) | "denied" (all throw)
    sysDark,            \* (prefers-color-scheme: dark) matches
    hasMatchMedia,      \* window.matchMedia exists
    last,               \* the operation that led to this state, and what it did
    hist,               \* what happened so far: see HistInit
    ls,                 \* one useLocalStorage hook and its storage: see LsCreated
    dc,                 \* one useDebouncedCallback hook and its timers: see DcCreated
    db,                 \* one useDebounce hook and its timers: see DbCreated
    dv,                 \* one useDebouncedValidation hook: see DvCreated
    ft                  \* one useFocusTrap hook and the document: see FtCreated

themeVars == <<theme, mounted, systemPrefersDark, status, closure, announcerRef,
               body, timers, docDark, metaContent, transitionProp, storage,
               storageAccess, sysDark, hasMatchMedia, last, hist>>

vars == <<themeVars, ls, dc, db, dv, ft>>

\* What the operations of one hook leave alone: the other hooks.
besidesTheme == <<ls, dc, db, dv, ft>>
besidesLs == <<themeVars, dc, db, dv, ft>>
besidesDc == <<themeVars, ls, db, dv, ft>>
besidesDb == <<themeVars, ls, dc, dv, ft>>
besidesDv == <<themeVars, ls, dc, db, ft>>
besidesFt == <<themeVars, ls, dc, db, dv>>

\* ----------------------------------------------------------------- world

\* The current state as one record; log, threw and overflow describe the
\* operation in progress.
World ==
    [theme |-> theme, mounted |-> mounted, systemPrefersDark |-> systemPrefersDark,
     status |-> status, closure |-> closure, announcerRef |-> announcerRef,
     body |-> body, timers |-> timers, docDark |-> docDark,
     metaContent |-> metaContent, transitionProp |-> transitionProp,
     storage |-> storage,
     storageAccess |-> storageAccess, sysDark |-> sysDark,
     hasMatchMedia |-> hasMatchMedia,
     log |-> <<>>, threw |-> FALSE, overflow |-> FALSE]

Commit(w) ==
    /\ theme' = w.theme
    /\ mounted' = w.mounted
    /\ systemPrefersDark' = w.systemPrefersDark
    /\ status' = w.status
    /\ closure' = w.closure
    /\ announcerRef' = w.announcerRef
    /\ body' = w.body
    /\ timers' = w.timers
    /\ docDark' = w.docDark
    /\ metaContent' = w.metaContent
    /\ transitionProp' = w.transitionProp
    /\ storage' = w.storage
    /\ storageAccess' = w.storageAccess
    /\ sysDark' = w.sysDark
    /\ hasMatchMedia' = w.hasMatchMedia
    /\ UNCHANGED besidesTheme

\* One entry of the log of side effects of an operation.
Effect(e, k, v) == [e |-> e, k |-> k, v |-> v]

Logged(w, e, k, v) == [w EXCEPT !.log = Append(@, Effect(e, k, v))]

\* ------------------------------------------------------- browser services

\* localStorage.getItem(storageKey): throws when storage is denied.
getItemThrows(w) == w.storageAccess = "denied"

\* localStorage.getItem(storageKey), useTheme.ts 152 and 183: the read is
\* logged with what it returned.
getItem(w) ==
    Logged(w, "getItem", storageKey, IF getItemThrows(w) THEN "threw" ELSE w.storage)

\* The write without its try/catch: the exception reaches the caller.
setItemUncaught(w, v) ==
    IF w.storageAccess = "ok"
    THEN Logged([w EXCEPT !.storage = v], "setItem", storageKey, v)
    ELSE Logged([w EXCEPT !.threw = TRUE], "setItemThrew", storageKey, v)

\* useTheme.ts 85-90: localStorage.setItem(storageKey, v) in its try/catch;
\* setItem throws unless storage is writable.
setItem(w, v) ==
    IF w.storageAccess = "ok"
    THEN Logged([w EXCEPT !.storage = v], "setItem", storageKey, v)
    ELSE Logged(w, "setItemThrew", storageKey, v)

\* A JavaScript value used as a condition: null and "" are falsy.
Truthy(v) == v # Null /\ v # ""

isValidTheme(v) == v = "light" \/ v = "dark"

\* --------------------------------------------------------------- the hook

\* useTheme.ts 46-52. The caller checks hasMatchMedia first: without
\* window.matchMedia the call throws a TypeError.
detectSystemTheme(w, i) ==
    [w EXCEPT !.systemPrefersDark[i] = w.sysDark]

systemTheme(matches) == IF matches THEN "dark" ELSE "light"

\* A comparison written as an assignment: always true.
isDarkAssigned(newTheme) == TRUE

\* useTheme.ts 61
isDarkTheme(newTheme) == newTheme = "dark"

\* applyTheme without its last step: nothing is persisted.
applyThemeNoStore(w, newTheme) ==
    LET isDark == isDarkTheme(newTheme)
        w1 == Logged([w EXCEPT !.transitionProp = TRUE, !.docDark = isDark],
                     "class", "dark", IF isDark THEN "add" ELSE "remove")
    IN  IF w1.metaContent # NoMeta
        THEN Logged([w1 EXCEPT !.metaContent =
                         IF isDark THEN MetaDark ELSE MetaLight],
                    "meta", "theme-color",
                    IF isDark THEN MetaDark ELSE MetaLight)
        ELSE w1

\* useTheme.ts 57-91: class, transition property, meta colour, storage.
\* Every call starts a timeout that removes the transition property; the
\* timeouts that find it removed already do nothing and are not followed,
\* so one is pending exactly when the property is set.
applyTheme(w, newTheme) ==
    LET isDark == isDarkTheme(newTheme)
        w1 == Logged([w EXCEPT !.transitionProp = TRUE, !.docDark = isDark],
                     "class", "dark", IF isDark THEN "add" ELSE "remove")
        w2 == w1
        w3 == IF w2.metaContent # NoMeta
              THEN Logged([w2 EXCEPT !.metaContent =
                               IF isDark THEN MetaDark ELSE MetaLight],
                          "meta", "theme-color",
                          IF isDark THEN MetaDark ELSE MetaLight)
              ELSE w2
    IN  setItem(w3, newTheme)

\* useTheme.ts 96-120: replace this instance's announcer element and start
\* its removal timer. removeChild of an element that is not a child of
\* document.body throws.
announceThemeChange(w, i, newTheme) ==
    LET old == w.announcerRef[i]
        free == {a \in AnnouncerIds(i) : a \notin w.body /\ a \notin w.timers /\ a # old}
        fresh == CHOOSE a \in free : \A b \in free : a[2] <= b[2]
    IN  IF old # NoAnnouncer /\ old \notin w.body
        THEN [w EXCEPT !.threw = TRUE]
        ELSE IF free = {}
        THEN [w EXCEPT !.overflow = TRUE]
        ELSE Logged([w EXCEPT !.body = (@ \ {old}) \cup {fresh},
                              !.announcerRef[i] = fresh,
                              !.timers = @ \cup {fresh}],
                    "announce", "", newTheme)

\* The validation with "or" for "and": every argument is replaced.
validatedOr(newTheme) ==
    IF newTheme # "light" \/ newTheme # "dark" THEN defaultTheme ELSE newTheme

\* No validation at all.
validatedNot(newTheme) == newTheme

\* Only a missing argument is replaced: any non-empty string passes.
validatedFalsy(newTheme) ==
    IF newTheme = Null \/ newTheme = "" THEN defaultTheme ELSE newTheme

\* useTheme.ts 126-129
validated(newTheme) ==
    IF newTheme # "light" /\ newTheme # "dark" THEN defaultTheme ELSE newTheme

\* An early return when the theme is the one of the last render.
setThemeSkipSame(w, i, newTheme) ==
    LET v == validated(newTheme)
        w1 == Logged([w EXCEPT !.theme[i] = v], "setState", "", v)
    IN  IF v = w.closure[i] THEN w
        ELSE announceThemeChange(applyTheme(w1, v), i, v)

\* useTheme.ts 125-134
setTheme(w, i, newTheme) ==
    LET v == validated(newTheme)
        w1 == Logged([w EXCEPT !.theme[i] = v], "setState", "", v)
    IN  announceThemeChange(applyTheme(w1, v), i, v)

\* The comparison never true: the toggle always asks for dark.
toggleThemeAlwaysDark(w, i) == setTheme(w, i, "dark")

\* useTheme.ts 139-142: theme is the value captured at the last render.
toggleTheme(w, i) ==
    setTheme(w, i, IF w.closure[i] = "dark" THEN "light" ELSE "dark")

\* React renders instance i again: useCallback (139-142, deps [theme,
\* setTheme]) returns a toggleTheme that sees the current theme, and the
\* keyboard effect (208-219) registers it.
render(w, i) == [w EXCEPT !.closure[i] = w.theme[i]]

\* toggleTheme, the render of its update, toggleTheme again.
toggledTwice(w, i) == toggleTheme(render(toggleTheme(w, i), i), i)

\* The handler without the check for a saved preference.
handleChangeUnchecked(w, i, matches) ==
    [setTheme(getItem([w EXCEPT !.systemPrefersDark[i] = matches]), i,
              systemTheme(matches))
        EXCEPT !.threw = FALSE]

\* useTheme.ts 178-191; an exception of the try block is caught and logged.
handleChange(w, i, matches) ==
    LET w1 == getItem([w EXCEPT !.systemPrefersDark[i] = matches])
        w2 == setTheme(w1, i, systemTheme(matches))
    IN  IF getItemThrows(w1) THEN w1
        ELSE IF ~Truthy(w1.storage) THEN [w2 EXCEPT !.threw = FALSE]
        ELSE w1

\* A keydown event: the modifier keys and the key.
KeyEvent(c, m, s, k) == [ctrlKey |-> c, metaKey |-> m, shiftKey |-> s, key |-> k]
KeyEvents ==
    {KeyEvent(TRUE, FALSE, TRUE, "T"), KeyEvent(FALSE, TRUE, TRUE, "T"),
     KeyEvent(FALSE, FALSE, TRUE, "T"), KeyEvent(TRUE, FALSE, FALSE, "T"),
     KeyEvent(TRUE, FALSE, TRUE, "t")}

\* useTheme.ts 211
isShortcut(ev) == (ev.ctrlKey \/ ev.metaKey) /\ ev.shiftKey /\ ev.key = "T"

\* useTheme.ts 209-215
handleKeyDown(w, i, ev) == IF isShortcut(ev) THEN toggleTheme(w, i) ELSE w

\* The system preference consulted before the saved one.
initialThemeSystemFirst(w) ==
    IF w.hasMatchMedia THEN systemTheme(w.sysDark)
    ELSE IF ~getItemThrows(w) /\ Truthy(w.storage) /\ isValidTheme(w.storage)
    THEN w.storage
    ELSE Null

\* No fallback to the system preference: the default is kept.
initialThemeDefault(w) ==
    IF ~getItemThrows(w) /\ Truthy(w.storage) /\ isValidTheme(w.storage)
    THEN w.storage
    ELSE IF w.hasMatchMedia THEN defaultTheme ELSE Null

\* useTheme.ts 147-168, the value of initialTheme; Null when the effect
\* throws (detectSystemTheme without window.matchMedia, in the try block and
\* again in the catch block).
initialTheme(w) ==
    IF ~getItemThrows(w) /\ Truthy(w.storage) /\ isValidTheme(w.storage)
    THEN w.storage
    ELSE IF w.hasMatchMedia THEN systemTheme(w.sysDark) ELSE Null

\* The init effect going through setTheme, announcement included.
mountEffectsViaSetTheme(w, i) ==
    LET init == initialTheme(w)
        usedSystem == getItemThrows(w) \/ ~(Truthy(w.storage) /\ isValidTheme(w.storage))
        w0 == getItem(w)
        w1 == IF usedSystem THEN detectSystemTheme(w0, i) ELSE w0
        w3 == [setTheme(w1, i, init) EXCEPT !.mounted[i] = TRUE]
        crashed(x) == [x EXCEPT !.theme[i] = w.theme[i],
                                !.mounted[i] = w.mounted[i],
                                !.systemPrefersDark[i] = w.systemPrefersDark[i],
                                !.status[i] = "crashed",
                                !.threw = TRUE]
    IN  IF init = Null THEN crashed(w0)
        ELSE IF ~w.hasMatchMedia THEN crashed(w3)
        ELSE [w3 EXCEPT !.status[i] = "live"]

\* useTheme.ts 147-168 (init effect) and 173-203 (system listener effect),
\* run when the component has rendered for the first time. An effect that
\* throws takes the component down: its state updates are dropped, what it
\* did to the document and to storage stays.
mountEffects(w, i) ==
    LET init == initialTheme(w)
        usedSystem == getItemThrows(w) \/ ~(Truthy(w.storage) /\ isValidTheme(w.storage))
        w0 == getItem(w)
        w1 == IF usedSystem THEN detectSystemTheme(w0, i) ELSE w0
        w2 == Logged([w1 EXCEPT !.theme[i] = init], "setState", "", init)
        w3 == [applyTheme(w2, init) EXCEPT !.mounted[i] = TRUE]
        crashed(x) == [x EXCEPT !.theme[i] = w.theme[i],
                                !.mounted[i] = w.mounted[i],
                                !.systemPrefersDark[i] = w.systemPrefersDark[i],
                                !.status[i] = "crashed",
                                !.threw = TRUE]
    IN  IF init = Null THEN crashed(w0)
        ELSE IF ~w.hasMatchMedia THEN crashed(w3)
        ELSE [w3 EXCEPT !.status[i] = "live"]

\* useTheme.ts 224-230 and the listener cleanups 196, 201, 218.
unmountCleanup(w, i) ==
    LET a == w.announcerRef[i]
    IN  [w EXCEPT !.status[i] = "gone",
                  !.body = IF a # NoAnnouncer /\ a \in w.body THEN @ \ {a} ELSE @]

\* The timeout as src/unnamed/part_005 had it: removeChild without the
\* parentNode test, which throws when the element is no longer a child.
announcerTimeoutUnchecked(w, a) ==
    LET w1 == [w EXCEPT !.timers = @ \ {a}]
    IN  IF a \in w.body
        THEN [w1 EXCEPT !.body = @ \ {a}]
        ELSE [w1 EXCEPT !.threw = TRUE]

\* The timeout without lines 115-117: the ref keeps the removed element.
announcerTimeoutKeepsRef(w, a) ==
    LET w1 == [w EXCEPT !.timers = @ \ {a}]
    IN  IF a \in w.body THEN [w1 EXCEPT !.body = @ \ {a}] ELSE w1

\* useTheme.ts 112-119: the removal timeout of announcer a of instance i.
announcerTimeout(w, a) ==
    LET i == a[1]
        w1 == [w EXCEPT !.timers = @ \ {a}]
    IN  IF a \in w.body
        THEN [w1 EXCEPT !.body = @ \ {a},
                        !.announcerRef[i] = IF @ = a THEN NoAnnouncer ELSE @]
        ELSE w1

\* useTheme.ts 72-74
transitionTimeout(w) == [w EXCEPT !.transitionProp = FALSE]

\* The cleanups that forget removeEventListener: an unmounted instance
\* still listens.
listensForever(w, i) == w.status[i] \in {"live", "gone"}

\* useTheme.ts 195-196, 200-201, 217-218: the listeners of instance i are
\* registered by its effects and removed by their cleanups.
listens(w, i) == w.status[i] = "live"

\* One event delivered to the listener of every live instance, in the
\* order the listeners were registered.
RECURSIVE changeAll(_, _, _)
changeAll(w, matches, k) ==
    IF k > Len(DispatchOrder) THEN w
    ELSE LET i == DispatchOrder[k]
         IN  changeAll(IF listens(w, i) THEN handleChange(w, i, matches) ELSE w,
                       matches, k + 1)

RECURSIVE keyDownAll(_, _, _)
keyDownAll(w, ev, k) ==
    IF k > Len(DispatchOrder) THEN w
    ELSE LET i == DispatchOrder[k]
         IN  keyDownAll(IF listens(w, i) THEN handleKeyDown(w, i, ev) ELSE w,
                        ev, k + 1)

\* ------------------------------------------------------- useLocalStorage

\* JavaScript values a caller stores: the strings 'a' and '1', the number
\* 1, NaN, null and undefined.
JsValues == {"s:a", "s:1", "n:1", "NaN", "null", "undefined"}

\* Updater functions a caller hands to setValue: swap exchanges 'a' and '1'
\* (anything else becomes 'a'); next steps from 'a' to '1' to the number 1
\* and back to 'a' (anything else becomes 'a').
Updaters == {"f:swap", "f:next"}

Apply(f, v) ==
    IF f = "f:swap" THEN (IF v = "s:a" THEN "s:1" ELSE "s:a")
    ELSE CASE v = "s:a" -> "s:1"
           [] v = "s:1" -> "n:1"
           [] OTHER -> "s:a"

\* Texts found under a key: the JSON texts of the values and the bare
\* text a, which is not JSON.
Texts == {"\"a\"", "\"1\"", "1", "null", "a"}

\* The key the hook is used with, and another key of the same storage.
LsKey == "prefs"
LsKeys == {LsKey, "other"}
StorageAreas == {"localStorage", "sessionStorage"}

\* The defaultValue option: not given, or the number 1.
LsDefaults == {"undefined", "n:1"}

NoError == "<no error>"

\* part_006 39-45, defaultSerializer.read: JSON.parse, the text itself when
\* it does not parse.
serializerRead(t) ==
    CASE t = "\"a\"" -> "s:a"
      [] t = "\"1\"" -> "s:1"
      [] t = "1" -> "n:1"
      [] t = "null" -> "null"
      [] OTHER -> "s:a"

\* part_006 46-52, defaultSerializer.write: JSON.stringify (NaN gives
\* null).
serializerWrite(v) ==
    CASE v = "s:a" -> "\"a\""
      [] v = "s:1" -> "\"1\""
      [] v = "n:1" -> "1"
      [] OTHER -> "null"

\* The hook before its first render, with what its storage holds.
\* value, isInitialized, error: the hook's state (latest values);
\* closureValue: the value captured by the setStoredValue of the last
\* render; stored: the text under LsKey in localStorage, Null when absent;
\* access: "ok", "quota" (setItem throws) or "denied" (every call throws);
\* op, arg, threw, onError, set, writes: the last operation, whether it
\* threw to its caller, how often it called onError, whether it set the
\* value, and its storage writes in order.
LsCreated(d, a, t) ==
    [value |-> "undefined", closureValue |-> "undefined", defaultValue |-> d,
     isInitialized |-> FALSE, error |-> NoError, status |-> "created",
     stored |-> t, access |-> a,
     op |-> "load", arg |-> "", threw |-> FALSE, onError |-> 0, set |-> FALSE,
     writes |-> <<>>]

\* No useLocalStorage hook is in use.
LsUnused == LsCreated("undefined", "ok", Null)

LsBegin(op, arg) ==
    [ls EXCEPT !.op = op, !.arg = arg, !.threw = FALSE, !.onError = 0,
               !.set = FALSE, !.writes = <<>>]

\* window.localStorage.getItem / setItem / removeItem throws.
lsThrows(w, call) ==
    \/ w.access = "denied"
    \/ w.access = "quota" /\ call = "setItem"

\* The catch blocks: setError(err); onError?.(err).
lsCaught(w) == [w EXCEPT !.error = "Error", !.onError = @ + 1]

\* part_006 119 and 142: removeItem(key) inside the try block.
lsRemoveItem(w) ==
    IF lsThrows(w, "removeItem")
    THEN lsCaught([w EXCEPT !.writes = Append(@, <<"removeItemThrew", LsKey>>)])
    ELSE [w EXCEPT !.stored = Null, !.writes = Append(@, <<"removeItem", LsKey>>)]

\* part_006 121: setItem(key, text) inside the try block.
lsSetItem(w, t) ==
    IF lsThrows(w, "setItem")
    THEN lsCaught([w EXCEPT !.writes = Append(@, <<"setItemThrew", LsKey, t>>)])
    ELSE [w EXCEPT !.stored = t, !.writes = Append(@, <<"setItem", LsKey, t>>)]

\* part_006 80-97: the initializer of the value state.
initialValue(w) ==
    IF lsThrows(w, "getItem")
    THEN [w EXCEPT !.value = w.defaultValue, !.onError = @ + 1]
    ELSE IF w.stored = Null THEN [w EXCEPT !.value = w.defaultValue]
    ELSE [w EXCEPT !.value = serializerRead(w.stored)]

\* The init effect with setIsInitialized(true) at the end of the try block
\* instead of in finally.
initEffectNoFinally(w) ==
    LET w1 == [w EXCEPT !.error = NoError]
    IN  IF lsThrows(w1, "getItem") THEN lsCaught(w1)
        ELSE IF w1.stored # Null
        THEN [w1 EXCEPT !.value = serializerRead(w1.stored), !.set = TRUE,
                        !.isInitialized = TRUE]
        ELSE [w1 EXCEPT !.isInitialized = TRUE]

\* part_006 154-172: the init effect.
initEffect(w) ==
    LET w1 == [w EXCEPT !.error = NoError]
        w2 == IF lsThrows(w1, "getItem") THEN lsCaught(w1)
              ELSE IF w1.stored # Null
              THEN [w1 EXCEPT !.value = serializerRead(w1.stored), !.set = TRUE]
              ELSE w1
    IN  [w2 EXCEPT !.isInitialized = TRUE]

\* setStoredValue without the removeItem branch: null is written as text.
setStoredValueNoRemove(w, newValue) ==
    LET valueToStore == IF newValue \in Updaters
                        THEN Apply(newValue, w.closureValue) ELSE newValue
        w1 == [w EXCEPT !.error = NoError, !.value = valueToStore, !.set = TRUE]
    IN  lsSetItem(w1, serializerWrite(valueToStore))

\* part_006 105-131; value in line 111 is the value of the last render.
setStoredValue(w, newValue) ==
    LET valueToStore == IF newValue \in Updaters
                        THEN Apply(newValue, w.closureValue) ELSE newValue
        w1 == [w EXCEPT !.error = NoError, !.value = valueToStore, !.set = TRUE]
    IN  IF valueToStore \in {"undefined", "null"}
        THEN lsRemoveItem(w1)
        ELSE lsSetItem(w1, serializerWrite(valueToStore))

\* part_006 136-149
removeValue(w) ==
    lsRemoveItem([w EXCEPT !.error = NoError, !.value = w.defaultValue, !.set = TRUE])

\* A storage event: the key and the storage area that changed and the new
\* text (Null when the key was removed).
StorageEvents == [key : LsKeys, storageArea : StorageAreas, newValue : Texts \cup {Null}]

\* The handler without the storageArea test.
handleStorageChangeAnyArea(w, e) ==
    IF e.key = LsKey
    THEN [w EXCEPT !.error = NoError, !.set = TRUE,
                   !.value = IF e.newValue = Null THEN w.defaultValue
                             ELSE serializerRead(e.newValue)]
    ELSE w

\* part_006 180-197
handleStorageChange(w, e) ==
    IF e.key = LsKey /\ e.storageArea = "localStorage"
    THEN [w EXCEPT !.error = NoError, !.set = TRUE,
                   !.value = IF e.newValue = Null THEN w.defaultValue
                             ELSE serializerRead(e.newValue)]
    ELSE w

\* -------------------------------------------------- useDebouncedCallback

\* Argument lists a caller hands to the debounced function.
DcArgs == {"x", "y", "z"}

\* The functions a render hands to the hook.
DcFuncs == {"f", "g"}

NoTimer == 0
NoArgs == "<undefined>"

\* The ids setTimeout returns: an id is not handed out again while a
\* timeout or a ref still holds it.
TimerIds == 1..MaxTimers

\* The hook after its first render. timeoutRef, argsRef, isFirstRun: the
\* refs; funcRef: the wrapped function; immediate: the option; pending: the
\* timeouts that were set and have neither fired nor been cleared, as
\* <<id, args>>; status: "live" or "gone"; op, arg: the last operation;
\* invoked: what the last operation invoked, as <<function, args>>; runs:
\* the invocations since the debounced function was last called; overflow:
\* no id was left for setTimeout.
DcCreated(imm) ==
    [timeoutRef |-> NoTimer, funcRef |-> "f", argsRef |-> NoArgs,
     isFirstRun |-> TRUE, immediate |-> imm, pending |-> {}, status |-> "live",
     op |-> "render", arg |-> "f", invoked |-> <<>>, runs |-> 0,
     overflow |-> FALSE]

\* No useDebouncedCallback hook is in use.
DcUnused == DcCreated(FALSE)

DcBegin(op, arg) == [dc EXCEPT !.op = op, !.arg = arg, !.invoked = <<>>]

\* clearTimeout(id): a timeout that has fired or was cleared is not there.
clearTimeout(w, id) == [w EXCEPT !.pending = {t \in @ : t[1] # id}]

\* funcRef.current(...args)
invoke(w, args) ==
    [w EXCEPT !.invoked = Append(@, <<w.funcRef, args>>), !.runs = @ + 1]

\* cancel, forgetting the id without clearing the timeout.
cancelKeepsTimer(w) ==
    IF w.timeoutRef # NoTimer
    THEN [w EXCEPT !.timeoutRef = NoTimer]
    ELSE w

\* useDebounce.ts 103-108
cancel(w) ==
    IF w.timeoutRef # NoTimer
    THEN [clearTimeout(w, w.timeoutRef) EXCEPT !.timeoutRef = NoTimer]
    ELSE w

\* useDebounce.ts 113-118
flush(w) ==
    IF w.timeoutRef # NoTimer /\ w.argsRef # NoArgs
    THEN invoke(cancel(w), w.argsRef)
    ELSE w

\* useDebounce.ts 123-141
debouncedFunc(w, args) ==
    LET w1 == [w EXCEPT !.argsRef = args, !.runs = 0]
        w2 == cancel(w1)
        free == {id \in TimerIds : id # w.timeoutRef /\ \A t \in w2.pending : t[1] # id}
        id == CHOOSE x \in free : \A y \in free : x <= y
    IN  IF w1.immediate /\ w1.isFirstRun
        THEN [invoke(w1, args) EXCEPT !.isFirstRun = FALSE]
        ELSE IF free = {} THEN [w2 EXCEPT !.overflow = TRUE]
        ELSE [w2 EXCEPT !.timeoutRef = id, !.pending = @ \cup {<<id, args>>}]

\* useDebounce.ts 138-140: the timeout t fires.
timeoutCallback(w, t) ==
    invoke([w EXCEPT !.pending = @ \ {t}], t[2])

\* ------------------------------------------------------------ useDebounce

\* The values and the delays a render hands to the hook.
DbValues == {"a", "b", "c"}
DbDelays == {300, 500}

\* The hook after its first render, before its effects. value, delay,
\* immediate: the arguments of the last render; debouncedValue: the state;
\* timeoutRef, isFirstRun: the refs; cleanup: the last run of the effect
\* returned its cleanup; pending: the timeouts that were set and have
\* neither fired nor been cleared, as <<id, value>>; status: "new", "live"
\* or "gone"; op: the last operation.
DbCreated(v, d, imm) ==
    [value |-> v, delay |-> d, immediate |-> imm, debouncedValue |-> v,
     timeoutRef |-> NoTimer, isFirstRun |-> TRUE, cleanup |-> FALSE,
     pending |-> {}, status |-> "new", op |-> "create"]

\* No useDebounce hook is in use.
DbUnused == DbCreated("a", 300, FALSE)

\* useDebounce.ts 52-56 and 61-65
debounceCleanup(w) ==
    IF w.timeoutRef # NoTimer THEN clearTimeout(w, w.timeoutRef) ELSE w

\* The effect, leaving the timeout it replaces pending.
debounceEffectKeepsTimer(w) ==
    LET free == {id \in TimerIds : id # w.timeoutRef /\ \A t \in w.pending : t[1] # id}
        id == CHOOSE x \in free : \A y \in free : x <= y
    IN  IF w.immediate /\ w.isFirstRun
        THEN [w EXCEPT !.debouncedValue = w.value, !.isFirstRun = FALSE,
                       !.cleanup = FALSE]
        ELSE [w EXCEPT !.timeoutRef = id,
                       !.pending = @ \cup {<<id, w.value>>},
                       !.cleanup = TRUE]

\* useDebounce.ts 33-57: the effect, after the cleanup of its last run
debounceEffect(w) ==
    LET w0 == IF w.cleanup THEN debounceCleanup(w) ELSE w
        w1 == debounceCleanup(w0)
        free == {id \in TimerIds : id # w.timeoutRef /\ \A t \in w1.pending : t[1] # id}
        id == CHOOSE x \in free : \A y \in free : x <= y
    IN  IF w0.immediate /\ w0.isFirstRun
        THEN [w0 EXCEPT !.debouncedValue = w0.value, !.isFirstRun = FALSE,
                        !.cleanup = FALSE]
        ELSE [w1 EXCEPT !.timeoutRef = id,
                        !.pending = @ \cup {<<id, w1.value>>},
                        !.cleanup = TRUE]

\* useDebounce.ts 47-49: the timeout t fires.
debounceTimeout(w, t) ==
    [w EXCEPT !.pending = @ \ {t}, !.debouncedValue = t[2]]

\* -------------------------------------------------- useDebouncedValidation

\* The values handed to validate().
DvValues == {"a", "b", "c"}

\* What validationFunc settles with: "a" is valid, "b" is not, and for "c"
\* the promise is rejected with an Error.
validationFunc(v) ==
    CASE v = "a" -> [ok |-> TRUE, result |-> Null]
      [] v = "b" -> [ok |-> TRUE, result |-> "invalid b"]
      [] OTHER -> [ok |-> FALSE, result |-> "cannot check c"]

\* The hook after its first render. value, error, isValidating: the state;
\* debouncedValue: what useDebounce(value, delay) returns; timer: the value
\* its pending timeout holds, or NoArgs when none is pending; inFlight: the
\* values whose validation has started and not settled, in the order they
\* started; latest: the value of the validation that started last; op: the
\* last operation.
DvCreated ==
    [value |-> Null, error |-> Null, isValidating |-> FALSE,
     debouncedValue |-> Null, timer |-> NoArgs, inFlight |-> <<>>,
     latest |-> Null, op |-> "render"]

\* useDebounce.ts 238-243: runValidation up to its await
runValidation(w) ==
    [w EXCEPT !.isValidating = TRUE, !.error = Null,
              !.inFlight = Append(@, w.debouncedValue),
              !.latest = w.debouncedValue]

\* useDebounce.ts 235-253: the effect on debouncedValue
validationEffect(w) ==
    IF w.debouncedValue = Null THEN w ELSE runValidation(w)

\* useDebounce.ts 244-248: runValidation after its await, for the i-th
\* validation in flight
settled(w, i) ==
    LET r == validationFunc(w.inFlight[i])
    IN  [w EXCEPT !.error = r.result,
                  !.isValidating = FALSE,
                  !.inFlight = SubSeq(@, 1, i - 1) \o SubSeq(@, i + 1, Len(@))]

\* useDebounce.ts 258-260, and the effect of useDebounce on the new value
validate(w, v) ==
    IF v = w.value THEN w ELSE [w EXCEPT !.value = v, !.timer = v]

\* useDebounce.ts 265-269, and the effect of useDebounce on the new value
clearValidation(w) ==
    [w EXCEPT !.value = Null, !.error = Null, !.isValidating = FALSE,
              !.timer = IF w.value = Null THEN @ ELSE Null]

\* ----------------------------------------------------------- useFocusTrap

\* The elements of the document that can hold focus, in document order: the
\* container holds c1, c2 and c3, the other two are outside it.
Doc == <<"opener", "c1", "c2", "c3", "after">>
Elements == {Doc[k] : k \in 1..Len(Doc)}
Container == {"c1", "c2", "c3"}

\* The hook after its first render, before its effect. listed: the elements
\* of the container that getFocusableElements returns (the others can hold
\* focus but the Tab key does not stop at them); active, autoFocus,
\* restoreFocus: the options; isActive, previousActiveElement: the refs;
\* activeElement: document.activeElement; listening: the listeners of the
\* effect are on the document; timers: the autoFocus timeouts that have not
\* fired; status: "new", "live" or "gone"; op, arg: the last operation and
\* the element it was about; restoredTo: the element the last deactivation gave focus back to, while
\* neither the user nor an activation has moved focus since.
FtCreated(l, a, af, rf, el) ==
    [listed |-> l, active |-> a, autoFocus |-> af, restoreFocus |-> rf,
     isActive |-> FALSE, previousActiveElement |-> Null,
     activeElement |-> el, listening |-> FALSE, timers |-> 0,
     status |-> "new", op |-> "create", arg |-> Null, restoredTo |-> Null]

\* No useFocusTrap hook is in use.
FtUnused == FtCreated({}, FALSE, FALSE, FALSE, "opener")

\* part_004 88-103
getFocusableElements(w) == SelectSeq(Doc, LAMBDA e : e \in w.listed)

\* part_004 178-192
handleFocus(w, target) ==
    IF ~w.isActive THEN w
    ELSE IF target \notin Container /\ getFocusableElements(w) # <<>>
         THEN [w EXCEPT !.activeElement = getFocusableElements(w)[1]]
         ELSE w

\* element.focus(), or the browser moving focus to the element: the focus
\* event reaches the listener of the effect when it is on the document.
focusElement(w, el) ==
    LET w1 == [w EXCEPT !.activeElement = el]
    IN  IF w.listening THEN handleFocus(w1, el) ELSE w1

\* part_004 137-163: the record after the handler, and whether it called
\* preventDefault
handleTabKey(w, shiftKey) ==
    LET focusableElements == getFocusableElements(w)
        firstElement == focusableElements[1]
        lastElement == focusableElements[Len(focusableElements)]
    IN  IF ~w.isActive THEN [w |-> w, prevented |-> FALSE]
        ELSE IF focusableElements = <<>> THEN [w |-> w, prevented |-> TRUE]
        ELSE IF shiftKey
        THEN IF w.activeElement = firstElement \/ w.activeElement \notin w.listed
             THEN [w |-> focusElement(w, lastElement), prevented |-> TRUE]
             ELSE [w |-> w, prevented |-> FALSE]
        ELSE IF w.activeElement = lastElement \/ w.activeElement \notin w.listed
             THEN [w |-> focusElement(w, firstElement), prevented |-> TRUE]
             ELSE [w |-> w, prevented |-> FALSE]

\* What the browser does with a Tab key nobody prevented: focus moves to the
\* next (with Shift, the previous) element of the document the Tab key stops
\* at, around the ends of the document.
Position(el) == CHOOSE k \in 1..Len(Doc) : Doc[k] = el
TabStops(w) == (Elements \ Container) \cup w.listed
Step(k, shiftKey) ==
    IF shiftKey THEN (IF k = 1 THEN Len(Doc) ELSE k - 1)
    ELSE (IF k = Len(Doc) THEN 1 ELSE k + 1)
RECURSIVE NextTabStop(_, _, _)
NextTabStop(w, k, shiftKey) ==
    IF Doc[Step(k, shiftKey)] \in TabStops(w) THEN Doc[Step(k, shiftKey)]
    ELSE NextTabStop(w, Step(k, shiftKey), shiftKey)
defaultTab(w, shiftKey) ==
    focusElement(w, NextTabStop(w, Position(w.activeElement), shiftKey))

\* A Tab keydown on the document.
tabKeyDown(w, shiftKey) ==
    LET r == handleTabKey(w, shiftKey)
    IN  IF w.listening
        THEN (IF r.prevented THEN r.w ELSE defaultTab(r.w, shiftKey))
        ELSE defaultTab(w, shiftKey)

\* part_004 197-215
activate(w) ==
    IF w.isActive THEN w
    ELSE [w EXCEPT !.previousActiveElement = w.activeElement,
                   !.isActive = TRUE,
                   !.restoredTo = Null,
                   !.timers = IF w.autoFocus /\ getFocusableElements(w) # <<>>
                              THEN @ + 1 ELSE @]

\* part_004 210-212: an autoFocus timeout fires.
autoFocusTimeout(w) ==
    [focusElement(w, getFocusableElements(w)[1]) EXCEPT !.timers = @ - 1]

\* part_004 220-239
deactivate(w) ==
    IF ~w.isActive THEN w
    ELSE LET w1 == [w EXCEPT !.isActive = FALSE]
             w2 == IF w1.restoreFocus /\ w1.previousActiveElement # Null
                   THEN [focusElement(w1, w1.previousActiveElement)
                           EXCEPT !.restoredTo = w1.previousActiveElement]
                   ELSE w1
         IN  [w2 EXCEPT !.previousActiveElement = Null]

\* part_004 258-263
trapCleanup(w) == deactivate([w EXCEPT !.listening = FALSE])

\* part_004 244-256
trapEffect(w) ==
    IF ~w.active THEN deactivate(w)
    ELSE [activate(w) EXCEPT !.listening = TRUE]

\* ------------------------------------------------------------ the history

\* last: the operation that produced the state. threw: an exception
\* reached the caller; log: the side effects in the order they happened;
\* saved: what a mount found stored under the key ("-" for the rest);
\* prev: the validated argument of the setTheme call that a setTheme call
\* of the same instance directly follows ("-" for the rest).
Last(op, i, arg, w) ==
    [op |-> op, inst |-> i, arg |-> arg,
     saved |-> IF op = "mount" THEN storage ELSE "-",
     prev |-> IF op = "setTheme" /\ last.op = "setTheme" /\ last.inst = i
              THEN validated(last.arg) ELSE "-",
     threw |-> w.threw, log |-> w.log]

\* The same for what the environment does on its own.
Env(op, i, arg) ==
    [op |-> op, inst |-> i, arg |-> arg, saved |-> "-", prev |-> "-",
     threw |-> FALSE, log |-> <<>>]

\* hist.chosen: the theme last chosen by the user and written to storage,
\* Null when there is none or when storage was changed from outside since;
\* hist.pristine: the first mount of the page found nothing stored, and
\* setTheme, toggleTheme and the shortcut have not been used since.
HistInit == [chosen |-> Null, pristine |-> FALSE]

\* The value of the last write of an operation, Null if it wrote nothing
\* or the write failed.
written(w) ==
    LET ks == {k \in 1..Len(w.log) : w.log[k].e \in {"setItem", "setItemThrew"}}
        k == CHOOSE x \in ks : \A y \in ks : y <= x
    IN  IF ks = {} THEN Null
        ELSE IF w.log[k].e = "setItem" THEN w.log[k].v ELSE Null

userAction(w) ==
    [hist EXCEPT !.pristine = FALSE,
                 !.chosen = IF w.log = <<>> THEN @ ELSE written(w)]

\* ----------------------------------------------------------------- actions

ThemeInit ==
    /\ theme = [i \in Inst |-> defaultTheme]
    /\ mounted = [i \in Inst |-> FALSE]
    /\ systemPrefersDark = [i \in Inst |-> FALSE]
    /\ status = [i \in Inst |-> "created"]
    /\ closure = [i \in Inst |-> defaultTheme]
    /\ announcerRef = [i \in Inst |-> NoAnnouncer]
    /\ body = {}
    /\ timers = {}
    /\ docDark \in BOOLEAN
    /\ metaContent \in {NoMeta, MetaInitial}
    /\ transitionProp = FALSE
    /\ storageAccess \in {"ok", "quota", "denied"}
    /\ storage \in IF storageAccess = "denied" THEN {Null} ELSE StoredValues
    /\ sysDark \in BOOLEAN
    /\ hasMatchMedia \in BOOLEAN
    /\ last = Env("load", "", "")
    /\ hist = HistInit

\* The page with the theme hook; no useLocalStorage hook is in use.
Init ==
    /\ ThemeInit
    /\ ls = LsUnused /\ dc = DcUnused /\ db = DbUnused /\ dv = DvCreated
    /\ ft = FtUnused

\* The component renders for the first time and its effects run.
Mount(i) ==
    /\ status[i] = "created"
    /\ LET w == mountEffects(World, i)
       IN  /\ ~w.overflow
           /\ Commit(w)
           /\ last' = Last("mount", i, "", w)
           /\ hist' = [hist EXCEPT !.pristine =
                            IF \A j \in Inst : status[j] = "created"
                            THEN storage = Null ELSE @]

\* React renders the instance again after a state update: the callbacks
\* of the new render see the new theme.
Render(i) ==
    /\ status[i] = "live"
    /\ closure[i] # theme[i]
    /\ Commit(render(World, i))
    /\ last' = Env("render", i,
                   IF last.op = "toggleTheme" /\ last.inst = i THEN "toggled" ELSE "")
    /\ UNCHANGED hist

\* A consumer calls the setTheme the hook returned.
CallSetTheme(i, arg) ==
    /\ status[i] = "live"
    /\ LET w == setTheme(World, i, arg)
       IN  /\ ~w.overflow
           /\ Commit(w)
           /\ last' = Last("setTheme", i, arg, w)
           /\ hist' = userAction(w)

\* A consumer calls the toggleTheme of its last render (the button).
\* last.arg is "second" when this call follows another call of the same
\* instance with nothing but the render of that call's update in between.
CallToggleTheme(i) ==
    /\ status[i] = "live"
    /\ LET w == toggleTheme(World, i)
       IN  /\ ~w.overflow
           /\ Commit(w)
           /\ last' = Last("toggleTheme", i,
                           IF last.op = "render" /\ last.inst = i /\ last.arg = "toggled"
                           THEN "second" ELSE "", w)
           /\ hist' = userAction(w)

\* A keydown event on the document.
KeyDown(ev) ==
    LET w == keyDownAll(World, ev, 1)
    IN  /\ ~w.overflow
        /\ Commit(w)
        /\ last' = Last("keydown", "", IF isShortcut(ev) THEN "shortcut" ELSE "other", w)
        /\ hist' = IF w.log = <<>> THEN hist ELSE userAction(w)

\* The operating system's colour scheme changes.
SystemChange ==
    /\ hasMatchMedia
    /\ LET w == changeAll([World EXCEPT !.sysDark = ~sysDark], ~sysDark, 1)
       IN  /\ ~w.overflow
           /\ Commit(w)
           /\ last' = Last("systemChange", "", systemTheme(~sysDark), w)
           /\ UNCHANGED hist

\* Another tab of the same origin changes the value under the key; this
\* tab receives a storage event. The hook registers no listener for it.
StorageEvent(v) ==
    /\ storageAccess # "denied"
    /\ v # storage
    /\ Commit([World EXCEPT !.storage = v])
    /\ last' = Env("storageEvent", "", v)
    /\ hist' = [hist EXCEPT !.chosen = Null]

AnnouncerTimeout(a) ==
    /\ a \in timers
    /\ LET w == announcerTimeout(World, a)
       IN  /\ Commit(w)
           /\ last' = [Env("announcerTimeout", a[1], "") EXCEPT !.threw = w.threw]
    /\ UNCHANGED hist

TransitionTimeout ==
    /\ transitionProp
    /\ Commit(transitionTimeout(World))
    /\ last' = Env("transitionTimeout", "", "")
    /\ UNCHANGED hist

Unmount(i) ==
    /\ status[i] = "live"
    /\ Commit(unmountCleanup(World, i))
    /\ last' = Env("unmount", i, "")
    /\ UNCHANGED hist

\* The storage quota is used up, or space is freed again.
QuotaChange ==
    /\ storageAccess # "denied"
    /\ Commit([World EXCEPT !.storageAccess = IF @ = "ok" THEN "quota" ELSE "ok"])
    /\ last' = Env("quotaChange", "", "")
    /\ UNCHANGED hist

\* One mounted consumer of the hook.
Single == {DispatchOrder[1]}

Next ==
    \/ \E i \in Single : Mount(i)
    \/ \E i \in Single : Render(i)
    \/ \E i \in Single, arg \in SetThemeArgs : CallSetTheme(i, arg)
    \/ \E i \in Single : CallToggleTheme(i)
    \/ \E ev \in KeyEvents : KeyDown(ev)
    \/ SystemChange
    \/ \E v \in StoredValues : StorageEvent(v)
    \/ \E a \in timers : AnnouncerTimeout(a)
    \/ TransitionTimeout
    \/ \E i \in Single : Unmount(i)
    \/ QuotaChange

Spec == Init /\ [][Next]_vars

\* The application, src/src/App.tsx 184 and 190: ThemeButton is mounted
\* with the page, Galaxy (in GalaxyBackground) once the intro is complete.
\* The page is loaded in a browser with media queries and working storage.
InitApp ==
    /\ Init
    /\ hasMatchMedia /\ storageAccess = "ok"
    /\ ~docDark /\ metaContent = NoMeta
    /\ storage \in {Null, "dark"}

\* src/unnamed/part_008 63-86: ThemeButton renders its button once mounted
\* is true; a click calls the toggleTheme of its useTheme instance.
Click ==
    /\ mounted[DispatchOrder[1]]
    /\ CallToggleTheme(DispatchOrder[1])

\* src/src/App.tsx 184: Galaxy mounts after the intro, ThemeButton being
\* mounted already.
IntroComplete ==
    /\ status[DispatchOrder[1]] = "live"
    /\ Mount(DispatchOrder[2])

\* The steps of the running application that reach the hook's handlers
\* and its announcer timeouts.
NextApp ==
    \/ Mount(DispatchOrder[1])
    \/ IntroComplete
    \/ \E i \in Inst : Render(i)
    \/ Click
    \/ \E ev \in KeyEvents : KeyDown(ev)
    \/ SystemChange
    \/ \E a \in timers : AnnouncerTimeout(a)

SpecApp == InitApp /\ [][NextApp]_vars

\* Every announcer element a mounted consumer can create.
Announcers == UNION {AnnouncerIds(i) : i \in Single}

\* useTheme.ts 112-119: a timeout that was set fires (setTimeout, 1000 ms,
\* never cancelled).
TimersFire == \A a \in Announcers : WF_vars(AnnouncerTimeout(a))

\* A page loaded without the dark class on the document and without a
\* theme-color meta element.
InitLive == Init /\ ~docDark /\ metaContent = NoMeta

\* The steps that create, replace and remove announcers, and the renders
\* between them; what other tabs, the quota and the transition timeout do
\* touches no announcer.
NextLive ==
    \/ \E i \in Single : Mount(i)
    \/ \E i \in Single : Render(i)
    \/ \E i \in Single, arg \in SetThemeArgs : CallSetTheme(i, arg)
    \/ \E i \in Single : CallToggleTheme(i)
    \/ \E ev \in KeyEvents : KeyDown(ev)
    \/ SystemChange
    \/ \E a \in timers : AnnouncerTimeout(a)
    \/ \E i \in Single : Unmount(i)

SpecLive == InitLive /\ [][NextLive]_vars /\ TimersFire

\* The hook alone in its tab with storage that works from load on: no
\* other tab writes the key and no write runs into the quota.
InitWorking == Init /\ storageAccess = "ok"

SpecWorking == InitWorking /\ [][NextLive]_vars

\* ----------------------------------------------- useLocalStorage, actions

\* The page that uses a useLocalStorage hook: its storage holds nothing or
\* some text under the key, which may be unreadable; the theme hook is not
\* mounted and stays as it is.
ThemeIdle ==
    /\ ThemeInit
    /\ ~docDark /\ metaContent = NoMeta /\ ~sysDark /\ hasMatchMedia
    /\ storageAccess = "ok" /\ storage = Null

InitLS ==
    /\ ThemeIdle /\ dc = DcUnused /\ db = DbUnused /\ dv = DvCreated
    /\ ft = FtUnused
    /\ \E d \in LsDefaults, a \in {"ok", "quota", "denied"} :
       \E t \in IF a = "denied" THEN {Null} ELSE Texts \cup {Null} :
           ls = LsCreated(d, a, t)

\* The component renders for the first time (the initializer runs), then
\* the init effect runs and the storage listener is registered.
LsMount ==
    /\ ls.status = "created"
    /\ LET w == initEffect(initialValue(LsBegin("mount", "")))
       IN  ls' = [w EXCEPT !.status = "live", !.closureValue = w.value]
    /\ UNCHANGED besidesLs

\* React renders the hook again: setStoredValue sees the current value.
LsRender ==
    /\ ls.status = "live"
    /\ ls.closureValue # ls.value
    /\ ls' = [LsBegin("render", "") EXCEPT !.closureValue = ls.value]
    /\ UNCHANGED besidesLs

\* The consumer calls setValue with a value or an updater.
LsSetValue(arg) ==
    /\ ls.status = "live"
    /\ ls' = setStoredValue(LsBegin("setValue", arg), arg)
    /\ UNCHANGED besidesLs

LsRemoveValue ==
    /\ ls.status = "live"
    /\ ls' = removeValue(LsBegin("removeValue", ""))
    /\ UNCHANGED besidesLs

\* Another tab changes a key of a storage area and this window receives
\* the storage event; a change of the hook's key in localStorage is a
\* change of what this tab finds stored. A window whose storage is denied
\* receives no storage events.
LsStorageEvent(e) ==
    /\ ls.access # "denied"
    /\ (e.key = LsKey /\ e.storageArea = "localStorage") => e.newValue # ls.stored
    /\ LET w0 == LsBegin("storageEvent", e)
           w1 == IF e.key = LsKey /\ e.storageArea = "localStorage"
                 THEN [w0 EXCEPT !.stored = e.newValue] ELSE w0
       IN  ls' = IF w1.status = "live" THEN handleStorageChange(w1, e) ELSE w1
    /\ UNCHANGED besidesLs

\* The quota is used up, or space is freed again.
LsQuotaChange ==
    /\ ls.access # "denied"
    /\ ls' = [LsBegin("quotaChange", "") EXCEPT !.access = IF @ = "ok" THEN "quota" ELSE "ok"]
    /\ UNCHANGED besidesLs

\* part_006 201-203: the component unmounts, the listener is removed.
LsUnmount ==
    /\ ls.status = "live"
    /\ ls' = [LsBegin("unmount", "") EXCEPT !.status = "gone"]
    /\ UNCHANGED besidesLs

NextLS ==
    \/ LsMount
    \/ LsRender
    \/ \E arg \in JsValues \cup Updaters : LsSetValue(arg)
    \/ LsRemoveValue
    \/ \E e \in StorageEvents : LsStorageEvent(e)
    \/ LsQuotaChange
    \/ LsUnmount

SpecLS == InitLS /\ [][NextLS]_vars

LsTypeOK ==
    /\ ls.value \in JsValues
    /\ ls.closureValue \in JsValues
    /\ ls.stored \in Texts \cup {Null}
    /\ ls.error \in {NoError, "Error"}
    /\ ls.onError \in 0..2

\* ------------------------------------------ useDebouncedCallback, actions

InitDC ==
    /\ ThemeIdle /\ ls = LsUnused /\ db = DbUnused /\ dv = DvCreated
    /\ ft = FtUnused
    /\ \E imm \in BOOLEAN : dc = DcCreated(imm)

\* useDebounce.ts 96-98: a render with the function func, and its effect.
DcRender(func) ==
    /\ dc.status = "live"
    /\ dc' = [DcBegin("render", func) EXCEPT !.funcRef = func]
    /\ UNCHANGED besidesDc

\* The debounced function is called.
DcCall(args) ==
    /\ dc.status = "live"
    /\ LET w == debouncedFunc(DcBegin("call", args), args)
       IN  ~w.overflow /\ dc' = w
    /\ UNCHANGED besidesDc

DcCancel ==
    /\ dc.status = "live"
    /\ dc' = cancel(DcBegin("cancel", ""))
    /\ UNCHANGED besidesDc

DcFlush ==
    /\ dc.status = "live"
    /\ dc' = flush(DcBegin("flush", ""))
    /\ UNCHANGED besidesDc

\* The delay of a pending timeout has passed.
DcTimeout(t) ==
    /\ t \in dc.pending
    /\ dc' = timeoutCallback(DcBegin("timeout", t[2]), t)
    /\ UNCHANGED besidesDc

\* useDebounce.ts 150-154: the component unmounts.
DcUnmount ==
    /\ dc.status = "live"
    /\ dc' = [cancel(DcBegin("unmount", "")) EXCEPT !.status = "gone"]
    /\ UNCHANGED besidesDc

NextDC ==
    \/ \E func \in DcFuncs : DcRender(func)
    \/ \E args \in DcArgs : DcCall(args)
    \/ DcCancel
    \/ DcFlush
    \/ \E t \in dc.pending : DcTimeout(t)
    \/ DcUnmount

SpecDC == InitDC /\ [][NextDC]_vars

\* --------------------------------------------------- useDebounce, actions

InitDB ==
    /\ ThemeIdle /\ ls = LsUnused /\ dc = DcUnused /\ dv = DvCreated
    /\ ft = FtUnused
    /\ \E v \in DbValues, d \in DbDelays, imm \in BOOLEAN :
         db = DbCreated(v, d, imm)

\* The effects of the first render.
DbMount ==
    /\ db.status = "new"
    /\ db' = [debounceEffect(db) EXCEPT !.status = "live", !.op = "mount"]
    /\ UNCHANGED besidesDb

\* A render with the value v and the delay d, and the effect when one of
\* them has changed.
DbRender(v, d) ==
    /\ db.status = "live"
    /\ LET w == [db EXCEPT !.value = v, !.delay = d, !.op = "render"]
       IN  db' = IF v # db.value \/ d # db.delay THEN debounceEffect(w) ELSE w
    /\ UNCHANGED besidesDb

\* The delay of a pending timeout has passed.
DbTimeout(t) ==
    /\ t \in db.pending
    /\ db' = debounceTimeout([db EXCEPT !.op = "timeout"], t)
    /\ UNCHANGED besidesDb

\* The component unmounts: both cleanups run.
DbUnmount ==
    /\ db.status = "live"
    /\ LET w == IF db.cleanup THEN debounceCleanup(db) ELSE db
       IN  db' = [debounceCleanup(w) EXCEPT !.status = "gone", !.op = "unmount"]
    /\ UNCHANGED besidesDb

\* A render that changes the value or the delay.
DbChange ==
    \E v \in DbValues, d \in DbDelays :
        (v # db.value \/ d # db.delay) /\ DbRender(v, d)

NextDB ==
    \/ DbMount
    \/ \E v \in DbValues, d \in DbDelays : DbRender(v, d)
    \/ \E t \in db.pending : DbTimeout(t)
    \/ DbUnmount

\* A timeout whose delay has passed does fire.
SpecDB ==
    /\ InitDB /\ [][NextDB]_vars
    /\ WF_vars(DbMount)
    /\ WF_vars(\E t \in db.pending : DbTimeout(t))

\* ----------------------------------------- useDebouncedValidation, actions

InitDV ==
    /\ ThemeIdle /\ ls = LsUnused /\ dc = DcUnused /\ db = DbUnused
    /\ dv = DvCreated /\ ft = FtUnused

DvValidate(v) ==
    /\ dv' = validate([dv EXCEPT !.op = "validate"], v)
    /\ UNCHANGED besidesDv

DvClear ==
    /\ dv' = clearValidation([dv EXCEPT !.op = "clear"])
    /\ UNCHANGED besidesDv

\* The timeout of useDebounce fires; when debouncedValue changes, the hook
\* renders and the validation effect runs.
DvTimeout ==
    /\ dv.timer # NoArgs
    /\ LET w == [dv EXCEPT !.op = "timeout", !.timer = NoArgs,
                           !.debouncedValue = dv.timer]
       IN  /\ dv.timer # dv.debouncedValue /\ dv.timer # Null
                => Len(dv.inFlight) < MaxInFlight
           /\ dv' = IF dv.timer # dv.debouncedValue THEN validationEffect(w)
                    ELSE w
    /\ UNCHANGED besidesDv

\* The promise of the i-th validation in flight settles.
DvSettle(i) ==
    /\ i \in 1..Len(dv.inFlight)
    /\ dv' = settled([dv EXCEPT !.op = "settle"], i)
    /\ UNCHANGED besidesDv

NextDV ==
    \/ \E v \in DvValues : DvValidate(v)
    \/ DvClear
    \/ DvTimeout
    \/ \E i \in 1..MaxInFlight : DvSettle(i)

SpecDV == InitDV /\ [][NextDV]_vars

\* -------------------------------------------------- useFocusTrap, actions

InitFT ==
    /\ ThemeIdle /\ ls = LsUnused /\ dc = DcUnused /\ db = DbUnused
    /\ dv = DvCreated
    /\ \E l \in SUBSET Container, a, af, rf \in BOOLEAN :
         ft = FtCreated(l, a, af, rf, "opener")

\* The effect of the first render.
FtMount ==
    /\ ft.status = "new"
    /\ ft' = [trapEffect(ft) EXCEPT !.status = "live", !.op = "mount"]
    /\ UNCHANGED besidesFt

\* A render with another value of the option active: the cleanup of the
\* last run of the effect when it returned one, then the effect.
FtSetActive(a) ==
    /\ ft.status = "live" /\ a # ft.active
    /\ LET w == [ft EXCEPT !.active = a, !.op = "render"]
           w1 == trapEffect(IF ft.listening THEN trapCleanup(w) ELSE w)
       IN  w1.timers <= MaxTimers /\ ft' = w1
    /\ UNCHANGED besidesFt

\* The component calls the activate() the hook returned.
FtActivate ==
    /\ ft.status = "live"
    /\ LET w == activate([ft EXCEPT !.op = "activate"])
       IN  w.timers <= MaxTimers /\ ft' = w
    /\ UNCHANGED besidesFt

\* The component calls the deactivate() the hook returned.
FtDeactivate ==
    /\ ft.status = "live"
    /\ ft' = deactivate([ft EXCEPT !.op = "deactivate"])
    /\ UNCHANGED besidesFt

FtTimeout ==
    /\ ft.timers > 0
    /\ ft' = autoFocusTimeout([ft EXCEPT !.op = "timeout"])
    /\ UNCHANGED besidesFt

\* The user presses Tab or Shift+Tab.
FtTab(shiftKey) ==
    /\ ft.status = "live"
    /\ ft' = [tabKeyDown([ft EXCEPT !.op = IF shiftKey THEN "Shift+Tab" ELSE "Tab"],
                         shiftKey)
                EXCEPT !.restoredTo = Null]
    /\ UNCHANGED besidesFt

\* The user clicks on the element el.
FtClick(el) ==
    /\ ft.status = "live"
    /\ ft' = [focusElement([ft EXCEPT !.op = "click", !.arg = el], el)
                EXCEPT !.restoredTo = Null]
    /\ UNCHANGED besidesFt

FtUnmount ==
    /\ ft.status = "live"
    /\ LET w == [ft EXCEPT !.op = "unmount", !.status = "gone"]
       IN  ft' = IF ft.listening THEN trapCleanup(w) ELSE w
    /\ UNCHANGED besidesFt

NextFT ==
    \/ FtMount
    \/ \E a \in BOOLEAN : FtSetActive(a)
    \/ FtActivate
    \/ FtDeactivate
    \/ FtTimeout
    \/ \E shiftKey \in BOOLEAN : FtTab(shiftKey)
    \/ \E el \in Elements : FtClick(el)
    \/ FtUnmount

SpecFT == InitFT /\ [][NextFT]_vars

TypeOK ==
    /\ mounted \in [Inst -> BOOLEAN]
    /\ status \in [Inst -> {"created", "live", "crashed", "gone"}]
    /\ storage \in StoredValues
    /\ storageAccess \in {"ok", "quota", "denied"}
    /\ body \subseteq UNION {AnnouncerIds(i) : i \in Inst}
    /\ timers \subseteq UNION {AnnouncerIds(i) : i \in Inst}

\* ------------------------------------------------------------------ claims

\* The operation that led to the state wrote to storage and the write threw.
WriteFailed == \E k \in 1..Len(last.log) : last.log[k].e = "setItemThrew"

\* The operation that led to the state issued a write to storage.
WriteIssued == \E k \in 1..Len(last.log) : last.log[k].e \in {"setItem", "setItemThrew"}

\* C1: after setTheme(t) with t light or dark, the theme of the instance
\* it was called on is t.
C1_SetThemeSetsTheme ==
    (last.op = "setTheme" /\ last.arg \in Theme) => theme[last.inst] = last.arg

\* C1 witness: setTheme("dark") called while the rendered theme was light.
C1_Witness ==
    /\ last.op = "setTheme" /\ last.arg = "dark"
    /\ closure[last.inst] = "light" /\ theme[last.inst] = "dark"

\* C2: once an instance is mounted, the document root has the class dark
\* exactly when the theme of the instance is dark (one mounted instance).
C2_DocumentMatchesTheme ==
    \A i \in Inst : mounted[i] => (docDark <=> theme[i] = "dark")

\* C2 witness: a system change switched a mounted instance and the
\* document to dark.
C2_Witness ==
    /\ last.op = "systemChange" /\ WriteIssued
    /\ \E i \in Inst : mounted[i] /\ theme[i] = "dark" /\ docDark

\* C3: the theme of every instance is light or dark in every state.
C3_ThemeAlwaysValid == \A i \in Inst : theme[i] \in Theme

\* C3 witness: a mount found the invalid value "blue" stored and came up
\* with the system's theme.
C3_Witness ==
    /\ last.op = "mount" /\ last.saved = "blue" /\ sysDark
    /\ mounted[last.inst] /\ theme[last.inst] = "dark"

\* C4 (as claimed): after a storage event for the key with the new value
\* dark, every live instance's theme and the document are dark, and the
\* tab wrote nothing to storage.
C4_CrossTabAdopted ==
    (last.op = "storageEvent" /\ last.arg = "dark")
        => /\ \A i \in Inst : status[i] = "live" => theme[i] = "dark"
           /\ (\E i \in Inst : status[i] = "live") => docDark
           /\ ~WriteIssued

\* C5: while a theme chosen by the user through setTheme, toggleTheme or
\* the shortcut is the value stored (the write succeeded and storage was
\* not changed from outside since), the stored value, the theme and the
\* document class all equal it, whatever system changes happened.
C5_UserChoiceOutlivesSystemChanges ==
    hist.chosen # Null
        => /\ storage = hist.chosen
           /\ docDark = (hist.chosen = "dark")
           /\ \A i \in Inst : status[i] # "created" => theme[i] = hist.chosen

\* C5 witness: the user chose light, then the system changed to dark.
C5_Witness ==
    /\ hist.chosen = "light" /\ last.op = "systemChange" /\ sysDark
    /\ storage = "light" /\ ~docDark

\* C6 (as claimed, with storage working): the page was initialised with
\* nothing stored and the user made no choice; after a system change every
\* live instance and the document follow the new system theme.
C6_SystemFollowedWithoutChoice ==
    (hist.pristine /\ last.op = "systemChange" /\ storageAccess = "ok")
        => /\ \A i \in Inst : status[i] = "live" => theme[i] = systemTheme(sysDark)
           /\ (\E i \in Inst : status[i] = "live") => (docDark = sysDark)

\* C7: a mount that found a valid theme stored and reached mounted = true
\* has that theme, whatever the system preference.
C7_PersistedWinsAtInit ==
    (last.op = "mount" /\ last.saved \in Theme /\ mounted[last.inst])
        => theme[last.inst] = last.saved

\* C7 witness: dark stored, the system asks for light, the mount ends dark.
C7_Witness ==
    /\ last.op = "mount" /\ last.saved = "dark" /\ ~sysDark
    /\ mounted[last.inst] /\ theme[last.inst] = "dark"

\* C8: a mount that found nothing stored and reached mounted = true has
\* the theme of the system preference.
C8_SystemThemeAtInit ==
    (last.op = "mount" /\ last.saved = Null /\ mounted[last.inst])
        => theme[last.inst] = systemTheme(sysDark)

\* C8 witness: nothing stored, the system asks for dark, the mount ends dark.
C8_Witness ==
    /\ last.op = "mount" /\ last.saved = Null /\ sysDark
    /\ mounted[last.inst] /\ theme[last.inst] = "dark" /\ docDark

\* C9 (as claimed, with storage working): a mount with nothing stored and
\* no media-query capability does not throw, reaches mounted = true and
\* has the default theme.
C9_NoSignalFallsBackToDefault ==
    (last.op = "mount" /\ last.saved = Null /\ ~hasMatchMedia /\ storageAccess = "ok")
        => /\ ~last.threw
           /\ mounted[last.inst]
           /\ theme[last.inst] = defaultTheme

\* C10: a setTheme(t) with t light or dark whose storage write throws does
\* not throw itself, sets the theme and the document class to t, and
\* leaves the stored value as it was.
C10_WriteFailureKeepsUpdate ==
    [][(last'.op = "setTheme" /\ last'.arg \in Theme /\ WriteFailed')
        => /\ ~last'.threw
           /\ theme'[last'.inst] = last'.arg
           /\ docDark' = (last'.arg = "dark")
           /\ storage' = storage]_vars

\* C10 witness: setTheme("dark") with the write failing and light stored.
C10_Witness ==
    /\ last.op = "setTheme" /\ last.arg = "dark" /\ WriteFailed
    /\ theme[last.inst] = "dark" /\ docDark /\ storage = "light"


\* The operations of the hook: its effects, its callbacks, its listeners.
HookOps == {"mount", "setTheme", "toggleTheme", "keydown", "systemChange",
            "announcerTimeout", "unmount"}

\* C11 (as claimed): with storage throwing on every read and write, no
\* operation of the hook throws to its caller and a mount reaches
\* mounted = true.
C11_NoThrowWithoutStorage ==
    (storageAccess = "denied" /\ last.op \in HookOps)
        => /\ ~last.threw
           /\ last.op = "mount" => mounted[last.inst]

\* C12: setTheme with an argument that is not light or dark does not throw
\* and sets the theme to the default; the state update, the document
\* class, the write to storage and the announcement all carry the default.
C12_InvalidArgumentGivesDefault ==
    (last.op = "setTheme" /\ last.arg \notin Theme)
        => /\ ~last.threw
           /\ theme[last.inst] = defaultTheme
           /\ docDark = (defaultTheme = "dark")
           /\ \A k \in 1..Len(last.log) :
                 last.log[k].e \in {"setState", "setItem", "setItemThrew", "announce"}
                     => last.log[k].v = defaultTheme
           /\ (WriteIssued /\ ~WriteFailed) => storage = defaultTheme

\* C12 witness: setTheme("blue") on a dark page with writable storage.
C12_Witness ==
    /\ last.op = "setTheme" /\ last.arg = "blue" /\ closure[last.inst] = "dark"
    /\ theme[last.inst] = "light" /\ ~docDark /\ storage = "light"

ListenedOps == {"systemChange", "storageEvent", "keydown"}

\* C14: once an instance is unmounted and no other instance is mounted, a
\* system-preference change, a storage event or a keydown changes neither
\* that instance's theme nor the document class, runs no side effect of the
\* hook, and changes storage only by what the other tab itself wrote.
C14_NoHandlerAfterUnmount ==
    [][\A i \in Inst :
          (/\ status[i] = "gone"
           /\ \A j \in Inst : status[j] # "live"
           /\ last'.op \in ListenedOps)
              => /\ theme'[i] = theme[i]
                 /\ docDark' = docDark
                 /\ metaContent' = metaContent
                 /\ body' = body
                 /\ last'.log = <<>>
                 /\ ~last'.threw
                 /\ storage' = IF last'.op = "storageEvent" THEN last'.arg ELSE storage
      ]_vars

\* C14 witness: after the unmount the system preference changed to the
\* opposite of the theme and the shortcut was pressed, nothing being stored.
C14_Witness ==
    /\ status[DispatchOrder[1]] = "gone"
    /\ last.op = "keydown" /\ last.arg = "shortcut"
    /\ storage = Null /\ storageAccess = "ok"
    /\ sysDark /\ theme[DispatchOrder[1]] = "light" /\ ~docDark

\* C15: after setTheme calls made back to back with successful writes the
\* theme, the document class and the stored value are those of the last
\* call's argument, whatever the calls before it asked for; calling
\* setTheme again with the same argument leaves all three as they are.
C15_LastSetThemeWins ==
    /\ (last.op = "setTheme" /\ last.arg \in Theme /\ storageAccess = "ok")
           => /\ theme[last.inst] = last.arg
              /\ docDark = (last.arg = "dark")
              /\ storage = last.arg
    /\ \A i \in Inst, a \in Theme, b \in Theme :
           (status[i] = "live" /\ storageAccess = "ok") =>
               LET once == setTheme(World, i, b)
                   w == setTheme(setTheme(World, i, a), i, b)
               IN  ~w.overflow =>
                       /\ w.theme[i] = b /\ w.docDark = (b = "dark") /\ w.storage = b
                       /\ w.theme[i] = once.theme[i]
                       /\ w.docDark = once.docDark
                       /\ w.storage = once.storage
                       /\ w.metaContent = once.metaContent

\* C15 witness: setTheme('light') directly after setTheme('dark'), both
\* written to storage.
C15_Witness ==
    /\ last.op = "setTheme" /\ last.arg = "light" /\ last.prev = "dark"
    /\ storageAccess = "ok" /\ storage = "light"
    /\ theme[last.inst] = "light" /\ ~docDark

\* C16: every read and every write of storage the hook makes is under the
\* key 'theme', and every value it writes, or tries to write, is 'light' or
\* 'dark': after setTheme with an invalid argument and after a mount that
\* found invalid data too.
C16_OnlyThemeKeyAndThemeValues ==
    /\ \A k \in 1..Len(last.log) :
           /\ last.log[k].e \in {"getItem", "setItem", "setItemThrew"}
                  => last.log[k].k = "theme"
           /\ last.log[k].e \in {"setItem", "setItemThrew"}
                  => last.log[k].v \in {"light", "dark"}
    /\ (WriteIssued /\ ~WriteFailed) => storage \in {"light", "dark"}

\* C16 witness: a mount read the invalid 'blue' under the key and wrote
\* the system theme under the same key.
C16_Witness ==
    /\ last.op = "mount"
    /\ \E k \in 1..Len(last.log) : last.log[k] = Effect("getItem", "theme", "blue")
    /\ \E k \in 1..Len(last.log) : last.log[k] = Effect("setItem", "theme", "dark")
    /\ storage = "dark"

\* C17 (as claimed): a mount that found a stored value other than 'light'
\* and 'dark' raises no error, reaches mounted = true with the theme of the
\* system preference, and applies the stored value nowhere.
C17_InvalidStoredTreatedAsAbsent ==
    (last.op = "mount" /\ last.saved \in StoredValues \ (Theme \cup {Null}))
        => /\ ~last.threw
           /\ mounted[last.inst]
           /\ theme[last.inst] = systemTheme(sysDark)
           /\ docDark = sysDark
           /\ \A k \in 1..Len(last.log) :
                  last.log[k].e \in {"setState", "setItem", "setItemThrew"}
                      => last.log[k].v = systemTheme(sysDark)

\* C18: every announcer element that is in the document body is removed
\* from it in the end; the removal timeout never throws, and when its
\* element has been replaced or removed by the unmount it changes nothing
\* but its own expiry.
C18_AnnouncerRemovedTimerHarmless ==
    /\ \A a \in Announcers : (a \in body) ~> (a \notin body)
    /\ [](last.op = "announcerTimeout" => ~last.threw)
    /\ [][\A a \in Announcers :
             (last'.op = "announcerTimeout" /\ a \in timers \ timers' /\ a \notin body)
                 => /\ body' = body
                    /\ announcerRef' = announcerRef
                    /\ theme' = theme /\ docDark' = docDark /\ storage' = storage
                    /\ status' = status
        ]_vars

\* C18 witness: the timeout fired after the unmount had removed its
\* element; the body holds no announcer and no timeout is pending.
C18_Witness ==
    /\ last.op = "announcerTimeout" /\ ~last.threw
    /\ status[last.inst] = "gone"
    /\ announcerRef[last.inst] # NoAnnouncer
    /\ body = {} /\ timers = {}

\* The operations that call setTheme: the consumer's setTheme and
\* toggleTheme calls, the keyboard shortcut, the system-preference change.
AnnouncingOps == {"setTheme", "toggleTheme", "keydown", "systemChange"}

\* C19: the mount applies the initial theme to the document and emits no
\* announcement, and an announcer element is only ever added to the body
\* by a setTheme or toggleTheme call or a system-preference change: none
\* exists before the first of them.
C19_NoAnnouncementAtInit ==
    /\ [](last.op = "mount" =>
             /\ \A k \in 1..Len(last.log) : last.log[k].e # "announce"
             /\ body = {} /\ timers = {}
             /\ announcerRef[last.inst] = NoAnnouncer
             /\ mounted[last.inst] => docDark = (theme[last.inst] = "dark"))
    /\ [][body' \ body # {} => last'.op \in AnnouncingOps]_vars

\* C19 witness: the mount applied dark to the document and the body holds
\* no announcer.
C19_Witness ==
    /\ last.op = "mount" /\ mounted[last.inst]
    /\ theme[last.inst] = "dark" /\ docDark
    /\ body = {} /\ announcerRef[last.inst] = NoAnnouncer

\* C20 (as claimed): in the application, every mounted instance of the
\* hook reports the same theme, and once an instance is mounted that theme
\* is the one the document class shows and the one stored.
C20_InstancesAgree ==
    \A i \in Inst : mounted[i] =>
        /\ \A j \in Inst : mounted[j] => theme[j] = theme[i]
        /\ docDark = (theme[i] = "dark")
        /\ storage = theme[i]

\* Every update of every mounted instance has been rendered.
AllRendered == \A i \in Inst : status[i] = "live" => closure[i] = theme[i]

C22_InvalidStoredFollowsSystemChange ==
    [][\A i \in Inst :
          (/\ last'.op = "systemChange"
           /\ status[i] = "live"
           /\ storage \in StoredValues \ (Theme \cup {Null}))
              => /\ ~last'.threw
                 /\ theme'[i] = systemTheme(sysDark')
                 /\ docDark' = sysDark'
      ]_vars

\* C23 (as claimed): a system-preference change handled while reading
\* storage throws does not throw and sets the theme of the mounted instance
\* to the new system theme.
C23_ReadFailureFollowsSystemChange ==
    [][\A i \in Inst :
          (last'.op = "systemChange" /\ status[i] = "live" /\ getItemThrows(World))
              => /\ ~last'.threw
                 /\ theme'[i] = systemTheme(sysDark')
      ]_vars

\* The place of a side effect in the order the claim gives: the state
\* update, the dark class, the storage write, the announcement, the
\* theme-color metadata.
ClaimedRank(e) ==
    CASE e = "setState" -> 1
      [] e = "class" -> 2
      [] e \in {"setItem", "setItemThrew"} -> 3
      [] e = "announce" -> 4
      [] e = "meta" -> 5
      [] OTHER -> 0

\* C24 (as claimed): the side effects of one setTheme call happen in the
\* order state update, dark class, storage write, announcement, theme-color
\* metadata.
C24_SideEffectOrder ==
    (last.op = "setTheme" /\ ~last.threw)
        => /\ \A r \in 1..4 : \E k \in 1..Len(last.log) : ClaimedRank(last.log[k].e) = r
           /\ \A j, k \in 1..Len(last.log) :
                  j < k => ClaimedRank(last.log[j].e) < ClaimedRank(last.log[k].e)

\* C25 (as claimed): a toggleTheme call that directly follows another
\* toggleTheme call of the same instance, no render in between, sets the
\* opposite of the theme the first call set, so the two calls bring the
\* theme and the document class back.
C25_ToggleTwiceBeforeRender ==
    [][\A i \in Inst :
          (/\ last.op = "toggleTheme" /\ last.inst = i
           /\ last'.op = "toggleTheme" /\ last'.inst = i)
              => /\ theme'[i] # theme[i]
                 /\ docDark' = ~docDark
      ]_vars

C27_OneAttachedAnnouncer ==
    /\ \A i \in Inst :
           /\ Cardinality(body \cap AnnouncerIds(i)) <= 1
           /\ (status[i] = "live" /\ announcerRef[i] # NoAnnouncer)
                  => announcerRef[i] \in body
    /\ last.op \in {"setTheme", "toggleTheme", "announcerTimeout"} => ~last.threw

\* C27 witness: a setTheme call replaced an announcer whose removal timeout
\* is still pending; only the new element is attached.
C27_Witness ==
    /\ last.op = "setTheme" /\ status[last.inst] = "live"
    /\ Cardinality(timers) = 2
    /\ body = {announcerRef[last.inst]}

\* C28: a storage event received by the mounted useLocalStorage hook sets
\* the value if and only if its key is the hook's key and its storageArea
\* is localStorage; the value is then the deserialized newValue, or the
\* defaultValue when newValue is null; the handler never throws and never
\* writes to storage.
C28_StorageEventFilter ==
    [][(ls'.op = "storageEvent" /\ ls.status = "live")
          => LET e == ls'.arg
                 own == e.key = "prefs" /\ e.storageArea = "localStorage"
             IN  /\ ls'.set <=> own
                 /\ own => ls'.value = IF e.newValue = Null THEN ls.defaultValue
                                       ELSE serializerRead(e.newValue)
                 /\ ~own => ls'.value = ls.value /\ ls'.error = ls.error
                 /\ ls'.writes = <<>> /\ ~ls'.threw
                 /\ ls'.stored = IF own THEN e.newValue ELSE ls.stored
      ]_vars

\* C28 witness: another tab stored the text 1 under the hook's key; the
\* value is the number 1.
C28_Witness ==
    /\ ls.op = "storageEvent" /\ ls.status = "live"
    /\ ls.arg = [key |-> LsKey, storageArea |-> "localStorage", newValue |-> "1"]
    /\ ls.set /\ ls.value = "n:1" /\ ls.defaultValue = "undefined"

\* C29: after a setValue or removeValue call made with working storage,
\* the key is absent exactly when the call was removeValue or set the value
\* to null or undefined, storage holds the serialization of the value
\* otherwise, a value handed to setValue is the value, and removeValue
\* leaves the value at defaultValue.
C29_ValueAndStorageAgree ==
    (ls.op \in {"setValue", "removeValue"} /\ ls.access = "ok")
        => /\ ls.stored = Null <=> (ls.op = "removeValue" \/ ls.value \in {"null", "undefined"})
           /\ ls.stored # Null => ls.stored = serializerWrite(ls.value)
           /\ (ls.op = "setValue" /\ ls.arg \in JsValues) => ls.value = ls.arg
           /\ ls.op = "removeValue" => ls.value = ls.defaultValue
           /\ ls.error = NoError /\ ~ls.threw

\* C29 witness: setValue(null) removed the key that held the text of 'a'.
C29_Witness ==
    /\ ls.op = "setValue" /\ ls.arg = "null" /\ ls.access = "ok"
    /\ ls.value = "null" /\ ls.stored = Null
    /\ ls.writes = << <<"removeItem", LsKey>> >>
    /\ ls.closureValue = "s:a"

\* The last operation ran into a storage failure: a read at mount or a
\* write or removal that threw.
LsFailed ==
    \/ ls.op = "mount" /\ ls.access = "denied"
    \/ /\ ls.op \in {"setValue", "removeValue"}
       /\ \E k \in 1..Len(ls.writes) : ls.writes[k][1] \in {"setItemThrew", "removeItemThrew"}

\* C30: no operation of useLocalStorage throws to its caller; an operation
\* that ran into a storage failure leaves the error state set and has
\* called onError, an operation that did not leaves error at null, also
\* when an error was recorded before; isInitialized is true once the hook
\* has mounted, whether the read failed or not.
C30_FailureRecordedNotThrown ==
    /\ ~ls.threw
    /\ ls.status # "created" => ls.isInitialized
    /\ ls.op \in {"mount", "setValue", "removeValue"} =>
           IF LsFailed THEN ls.error = "Error" /\ ls.onError >= 1
           ELSE ls.error = NoError /\ ls.onError = 0

\* C30 witness: a setValue call whose write ran into the quota: the value
\* is set, the error is recorded and onError was called once.
C30_Witness ==
    /\ ls.op = "setValue" /\ ls.arg = "s:1" /\ ls.access = "quota"
    /\ ls.value = "s:1" /\ ls.stored # serializerWrite("s:1")
    /\ ls.error = "Error" /\ ls.onError = 1 /\ ls.isInitialized

\* C31 (as claimed): a setValue call with an updater that directly follows
\* another setValue call with an updater, no render in between, applies
\* its updater to the value the first call set, and that result is what is
\* stored (storage working).
C31_FunctionalUpdatesCompose ==
    [][(/\ ls.op = "setValue" /\ ls.arg \in Updaters
        /\ ls'.op = "setValue" /\ ls'.arg \in Updaters
        /\ ls.access = "ok")
          => /\ ls'.value = Apply(ls'.arg, ls.value)
             /\ ls'.stored = serializerWrite(Apply(ls'.arg, ls.value))
      ]_vars


\* C32: in useDebouncedCallback, flush() invokes the wrapped function if and
\* only if a debounced invocation is pending (its timeout was set and has
\* neither fired nor been cleared), then once, with the last arguments, and
\* leaving no timeout pending; no debounced call leads to more than one
\* invocation, and flush() after the timeout has fired invokes nothing.
C32_FlushOnlyWhenPending ==
    [][dc'.op = "flush"
         => /\ (dc'.invoked # <<>>) <=> (dc.pending # {})
            /\ dc.pending # {}
                 => /\ dc'.invoked = << <<dc.funcRef, dc.argsRef>> >>
                    /\ dc'.pending = {}
            /\ dc'.runs <= 1
      ]_vars


\* C33: in useDebouncedCallback at most one timeout is pending at any time,
\* and it is the one of the last call (its id is in timeoutRef and it holds
\* the last arguments), so a timeout that fires runs the last call of a
\* burst; after cancel() and after unmount no timeout is pending, so nothing
\* scheduled before runs.
C33_OnePendingNoneAfterCancel ==
    /\ Cardinality(dc.pending) <= 1
    /\ \A t \in dc.pending : t[1] = dc.timeoutRef /\ t[2] = dc.argsRef
    /\ dc.op \in {"cancel", "unmount"} => dc.pending = {}
    /\ dc.status = "gone" => dc.pending = {}
    /\ dc.op = "timeout" => dc.invoked = << <<dc.funcRef, dc.argsRef>> >>

\* A call was scheduled and cancel() took it away before it ran.
C33_Witness ==
    /\ dc.op = "cancel" /\ ~dc.immediate
    /\ dc.argsRef # NoArgs /\ dc.runs = 0


\* C34: in useDebounce with immediate = false, debouncedValue changes only
\* when a timeout fires, and then to the value of the last render, which no
\* render has changed since that timeout was set (a change clears the
\* pending timeout, so at most the timeout of the current value is
\* pending); it does not change after unmount; and unless the value or the
\* delay keeps changing, debouncedValue eventually equals the latest value
\* for as long as the hook is mounted.
C34_DebouncedValueFollows ==
    /\ [][~db.immediate
            => /\ db'.debouncedValue # db.debouncedValue
                    => /\ db'.op = "timeout"
                       /\ db'.debouncedValue = db.value
                       /\ db.status = "live"
               /\ \A t \in db'.pending :
                    t = <<db'.timeoutRef, db'.value>>
               /\ db'.status = "gone" => db'.pending = {}
         ]_vars
    /\ ~db.immediate
          => \/ []<><<DbChange>>_vars
             \/ <>[](db.status = "gone" \/ db.debouncedValue = db.value)

\* The value changed, the timeout of the new value fired and debouncedValue
\* took it.
C34_Witness ==
    /\ ~db.immediate /\ db.op = "timeout"
    /\ db.debouncedValue = "b" /\ db.value = "b"


\* C35: in useDebouncedValidation, when an earlier validation settles after
\* the one that started last has settled, isValidating is false only if no
\* validation is still in flight, and once none is in flight the error is
\* the result for the value whose validation started last.
C35_LatestValidationWins ==
    [][(/\ dv'.op = "settle" /\ dv'.inFlight # dv.inFlight
        /\ \A k \in 1..Len(dv.inFlight) : dv.inFlight[k] # dv.latest)
         => /\ ~dv'.isValidating => dv'.inFlight = <<>>
            /\ dv'.inFlight = <<>>
                 => dv'.error = validationFunc(dv.latest).result
      ]_vars


\* C36: while the focus trap is active, a Tab or Shift+Tab keydown does not
\* move focus out of the container: Tab on the last focusable element or on
\* an element outside the list focuses the first, Shift+Tab on the first or
\* on an element outside the list focuses the last, the key does nothing
\* when the container has no focusable element, and focus landing outside
\* the container goes to the first focusable element.
C36_TabStaysInside ==
    [][ft.isActive /\ ft.status = "live"
         => LET list == getFocusableElements(ft)
                outside == ft.activeElement \notin ft.listed
            IN  /\ ft'.op \in {"Tab", "Shift+Tab"}
                     => /\ \/ ft'.activeElement \in Container
                           \/ ft'.activeElement = ft.activeElement
                        /\ list = <<>> => ft'.activeElement = ft.activeElement
                /\ ft'.op = "Tab" /\ list # <<>>
                      /\ (outside \/ ft.activeElement = list[Len(list)])
                     => ft'.activeElement = list[1]
                /\ ft'.op = "Shift+Tab" /\ list # <<>>
                      /\ (outside \/ ft.activeElement = list[1])
                     => ft'.activeElement = list[Len(list)]
                /\ ft'.op = "click" /\ ft'.arg \notin Container /\ list # <<>>
                     => ft'.activeElement = list[1]
      ]_vars


\* C37: in useFocusTrap with restoreFocus = true, once the trap has been
\* deactivated and every autoFocus timeout has fired, focus is on the
\* element that had it when the trap was activated, unless the user has
\* moved it since; and activate() on a trap that is active keeps the
\* remembered element.
C37_FocusRestored ==
    [][/\ (/\ ft'.restoreFocus /\ ~ft'.isActive /\ ft'.timers = 0
           /\ ft'.restoredTo # Null)
          => ft'.activeElement = ft'.restoredTo
       /\ ft.isActive /\ ft'.op = "activate"
          => ft'.previousActiveElement = ft.previousActiveElement
      ]_vars

====
